---- MODULE Spec2Model ----
(***************************************************************************)
(* Model of the whttp tracing middleware: the response recorder            *)
(* (writer.go), the span lifecycle of Opentelemetry.Trace, the error       *)
(* responder Opentelemetry.Err and the panic recovery handler              *)
(* (otel_Trace.go).  One request is served from entry to exit; the wrapped *)
(* handler is an arbitrary bounded sequence of WriteHeader / Write / Err   *)
(* calls that ends by returning or by panicking.                           *)
(*                                                                         *)
(* Every call that reaches the span, the underlying http.ResponseWriter    *)
(* or the enclosing caller is appended to `log`, so orderings and counts   *)
(* of those calls are state properties.                                    *)
(***************************************************************************)
EXTENDS Integers, Sequences, FiniteSets, TLC

(* ------------------------------ bounds --------------------------------- *)
\* longest byte slice the wrapped handler passes to one Write
MaxLen == 2
\* most WriteHeader / Write / Err calls the wrapped handler makes
MaxCalls == 2
\* most options in a list given to Trace
MaxOpts == 2
\* most WriteHeader / Write calls of each of two concurrent handlers
MaxEach == 1
\* the sizes formatted lie at most this far from a unit threshold
MaxDelta == 2

(* --------------------------- input alphabets --------------------------- *)
\* A body is a sequence of units.  A unit is one byte, [byte |-> "a"], or one
\* serialized JSON document, [message |-> ...] or [errors |-> ...], which the
\* model keeps whole; sizes count units.
Byte == {[byte |-> "a"], [byte |-> "b"]}

\* the longest byte slice the wrapped handler writes: a b a b ...
Text == [i \in 1..MaxLen |-> IF i % 2 = 1 THEN [byte |-> "a"] ELSE [byte |-> "b"]]

\* the byte slices the wrapped handler passes to Write: the prefixes of Text
Bodies == {SubSeq(Text, 1, j) : j \in 1..MaxLen}

\* status codes the wrapped handler passes to WriteHeader
HandlerCodes == {200, 404}

\* values the wrapped handler panics with
PanicValues == {"ErrAbortHandler", "boom"}

\* the value of a nil-pointer dereference raised by the Go runtime
NilDeref == "runtime error: invalid memory address or nil pointer dereference"

(* ------------------------------ events --------------------------------- *)
\* one call on the span (tgt "span"), on the underlying http.ResponseWriter
\* (tgt "sink") or one panic leaving the handler returned by Trace (tgt "caller")
Ev(tgt, op, key, num, txt) ==
    [tgt |-> tgt, op |-> op, key |-> key, num |-> num, txt |-> txt]

SpanEv(op, key, num, txt) == Ev("span", op, key, num, txt)

(* ------------------------- http.StatusText ----------------------------- *)
StatusText(code) ==
    CASE code = 200 -> "OK"
      [] code = 400 -> "Bad Request"
      [] code = 404 -> "Not Found"
      [] code = 422 -> "Unprocessable Entity"
      [] code = 500 -> "Internal Server Error"
      [] code = 503 -> "Service Unavailable"
      [] OTHER -> ""

(* ---------------- the underlying http.ResponseWriter ------------------- *)
\* What the client has been sent: the status line (the first WriteHeader
\* wins, a Write before any WriteHeader sends 200), the accepted bytes and
\* the header map.
NewSink == [wroteHeader |-> FALSE, status |-> 0, data |-> <<>>, contentType |-> ""]

SinkWriteHeader(sink, code) ==
    IF sink.wroteHeader THEN sink
    ELSE [sink EXCEPT !.wroteHeader = TRUE, !.status = code]

\* the (count, error) pairs one underlying Write of body may return: the whole
\* body without error, or a short count with an error
SinkResults(body) ==
    {[n |-> k, err |-> (k < Len(body))] : k \in 0..Len(body)}

SinkWrite(sink, body, res) ==
    LET s1 == SinkWriteHeader(sink, 200)
    IN  [s1 EXCEPT !.data = @ \o SubSeq(body, 1, res.n)]

(* ------------------------- bytes.Buffer -------------------------------- *)
NilBuffer == [isNil |-> TRUE, data |-> <<>>]

\* (*bytes.Buffer).String: a nil receiver yields "<nil>"
BufferString(buffer) ==
    IF buffer.isNil THEN <<[byte |-> "<nil>"]>> ELSE buffer.data

(* --------------------- ResponseWriter (the recorder) ------------------- *)
\* A world is everything one call can change: the recorder, the underlying
\* writer, the log of calls, the (count, error) the last Write returned and
\* the value of a panic in flight ("" when none).
NewRecorder ==
    [status |-> 0, size |-> 0, logParams |-> TRUE, logRespBody |-> TRUE,
     logReqBody |-> TRUE, buffer |-> NilBuffer]

NoRet == [n |-> 0, err |-> FALSE]

WithLogRequestBody(v) == [flag |-> "logReqBody", val |-> v]
WithLogResponseBody(v) == [flag |-> "logRespBody", val |-> v]
WithLogParams(v) == [flag |-> "logParams", val |-> v]

\* mutant: WithLogParams switches request-body logging too
ApplyOption_ParamsSetsReqBody(rec, opt) ==
    CASE opt.flag = "logReqBody" -> [rec EXCEPT !.logReqBody = opt.val]
      [] opt.flag = "logRespBody" -> [rec EXCEPT !.logRespBody = opt.val]
      [] opt.flag = "logParams" -> [rec EXCEPT !.logParams = opt.val, !.logReqBody = opt.val]

ApplyOption(rec, opt) ==
    CASE opt.flag = "logReqBody" -> [rec EXCEPT !.logReqBody = opt.val]
      [] opt.flag = "logRespBody" -> [rec EXCEPT !.logRespBody = opt.val]
      [] opt.flag = "logParams" -> [rec EXCEPT !.logParams = opt.val]

RECURSIVE ApplyOptions(_, _)
ApplyOptions(rec, options) ==
    IF options = <<>> THEN rec
    ELSE ApplyOptions(ApplyOption(rec, Head(options)), Tail(options))

\* http.ResponseWriter.WriteHeader / Write called on the writer Trace was given
RawWriteHeader(w, code) ==
    [w EXCEPT !.sink = SinkWriteHeader(@, code),
              !.log = Append(@, Ev("sink", "WriteHeader", "", code, <<>>))]

RawWrite(w, body, res) ==
    [w EXCEPT !.sink = SinkWrite(@, body, res),
              !.log = Append(@, Ev("sink", "Write", IF res.err THEN "error" ELSE "nil",
                                   res.n, body)),
              !.ret = res]

RW_WriteHeader(w, status) ==
    LET w1 == [w EXCEPT !.rec.status = status]
    IN  RawWriteHeader(w1, status)

\* mutant: the size is taken from the input length
RW_Write_SizeOfInput(w, body, res) ==
    LET w1 == IF w.rec.status = 0 THEN [w EXCEPT !.rec.status = 200] ELSE w
        w2 == RawWrite(w1, body, res)
        w3 == [w2 EXCEPT !.rec.size = Len(body)]
        w4 == IF w3.rec.logRespBody
              THEN [w3 EXCEPT !.rec.buffer = [isNil |-> FALSE, data |-> body]]
              ELSE w3
    IN  [w4 EXCEPT !.ret = w2.ret]

\* mutant: Write reports the whole body as written, without error
RW_Write_ReturnsLen(w, body, res) ==
    LET w1 == IF w.rec.status = 0 THEN [w EXCEPT !.rec.status = 200] ELSE w
        w2 == RawWrite(w1, body, res)
        w3 == [w2 EXCEPT !.rec.size = w2.ret.n]
        w4 == IF w3.rec.logRespBody
              THEN [w3 EXCEPT !.rec.buffer = [isNil |-> FALSE, data |-> body]]
              ELSE w3
    IN  [w4 EXCEPT !.ret = [n |-> Len(body), err |-> FALSE]]

RW_Write(w, body, res) ==
    LET w1 == IF w.rec.status = 0 THEN [w EXCEPT !.rec.status = 200] ELSE w
        w2 == RawWrite(w1, body, res)
        size == w2.ret.n
        err == w2.ret.err
        w3 == [w2 EXCEPT !.rec.size = size]
        w4 == IF w3.rec.logRespBody
              THEN [w3 EXCEPT !.rec.buffer = [isNil |-> FALSE, data |-> body]]
              ELSE w3
    IN  [w4 EXCEPT !.ret = [n |-> size, err |-> err]]

\* dynamic dispatch on the http.ResponseWriter a callee was handed
WriteHeaderVia(via, w, code) ==
    IF via = "recorder" THEN RW_WriteHeader(w, code) ELSE RawWriteHeader(w, code)

WriteVia(via, w, body, res) ==
    IF via = "recorder" THEN RW_Write(w, body, res) ELSE RawWrite(w, body, res)

HeaderSetContentType(w, v) == [w EXCEPT !.sink.contentType = v]

(* ------------------------------ helpers -------------------------------- *)
\* strings.Join(msg, ". ") as the sequence of its pieces
RECURSIVE JoinDot(_)
JoinDot(msg) ==
    IF Len(msg) = 0 THEN <<>>
    ELSE IF Len(msg) = 1 THEN <<msg[1]>>
    ELSE <<msg[1], ". ">> \o JoinDot(Tail(msg))

getMsgError(msg, code) ==
    IF Len(msg) > 0 THEN JoinDot(msg) ELSE <<StatusText(code)>>

\* strings.ToLower on the header names the model uses
convertHeaderName(headerName) ==
    CASE headerName = "Connection" -> "connection"
      [] headerName = "Content-Type" -> "content-type"
      [] OTHER -> headerName

KB == 1024
MB == 1024 * KB
GB == 1024 * MB

\* the digits of n \in 0..99 as two characters
TwoDigits(n) == <<ToString(n \div 10), ToString(n % 10)>>

\* fmt.Sprintf("%.2f", size/unit): size/unit is exact in float64 (unit is a
\* power of two), and the formatter rounds the exact value half to even.
\* The hundredths of the remainder are computed in two steps of 1024 and
\* unit/1024 so that no intermediate value leaves the 32-bit integers.
Fixed2(size, unit) ==
    LET u1 == unit \div KB
        rem == size % unit
        hi == rem \div u1
        lo == rem % u1
        t == (hi * 100) + ((lo * 100) \div u1)
        q == ((size \div unit) * 100) + (t \div KB)
        r == ((t % KB) * u1) + ((lo * 100) % u1)
        h == IF r > unit - r THEN q + 1
             ELSE IF r = unit - r THEN q + (q % 2)
             ELSE q
    IN  <<ToString(h \div 100), ".">> \o TwoDigits(h % 100)

\* mutant: the thresholds are exclusive
formatSize_Exclusive(size) ==
    IF size > GB THEN Fixed2(size, GB) \o <<" GB">>
    ELSE IF size > MB THEN Fixed2(size, MB) \o <<" MB">>
    ELSE IF size > KB THEN Fixed2(size, KB) \o <<" KB">>
    ELSE <<ToString(size), " B">>

formatSize(size) ==
    IF size >= GB THEN Fixed2(size, GB) \o <<" GB">>
    ELSE IF size >= MB THEN Fixed2(size, MB) \o <<" MB">>
    ELSE IF size >= KB THEN Fixed2(size, KB) \o <<" KB">>
    ELSE <<ToString(size), " B">>

(* ------------------------------ context ------------------------------- *)
\* A context is [hasSpan, recording, logReqBody]: whether it carries a span,
\* whether that span is recording, and the value under "log_req_body":
\* "unset", "true" or "false".
BoolValue(b) == IF b THEN "true" ELSE "false"

(* ------------------------------- span ---------------------------------- *)
\* a call on the trace.Span handle
SpanCall(w, op, key, num, txt) ==
    [w EXCEPT !.log = Append(@, SpanEv(op, key, num, txt))]

\* trace.SpanFromContext(ctx).IsRecording(): a context without span yields
\* the no-op span
IsRecording(ctx) == ctx.hasSpan /\ ctx.recording

setAttr(w, ctx, key, num, txt) ==
    IF ~IsRecording(ctx) THEN w
    ELSE SpanCall(w, "SetAttributes", key, num, txt)

RecordErrorOtel(w, ctx, err) ==
    IF ~IsRecording(ctx) THEN w
    ELSE IF err.kind # "nil"
    THEN SpanCall(SpanCall(w, "RecordError", "", 0, err.text),
                  "SetStatus", "Error", 0, err.text)
    ELSE w

(* ------------------------------ errors --------------------------------- *)
GenericError(text) == [kind |-> "generic", text |-> text, failures |-> <<>>]

\* validator.ValidationErrors: a list of [field, tag] failures
ValidationError(failures) ==
    [kind |-> "validation", text |-> <<"validation failed">>, failures |-> failures]

\* errors.New(string(debug.Stack()))
StackError == GenericError(<<"goroutine 1 [running]: ...">>)

\* FieldError.Translate(trans)
Translate(fe) == <<fe.field, " ", fe.tag>>

\* the Errors map of Error400 after the loop: a later failure of a field
\* replaces the entry of an earlier one
Error400Of(failures) ==
    [f \in {failures[i].field : i \in 1..Len(failures)} |->
        LET last == CHOOSE i \in 1..Len(failures) :
                        /\ failures[i].field = f
                        /\ \A j \in (i + 1)..Len(failures) : failures[j].field # f
        IN  <<Translate(failures[last])>>]

(* --------------------------- Opentelemetry.Err ------------------------- *)
\* mutant: every error response marks the span as failed
Err_AlwaysRecords(w, o, ctx, via, code, err, messages, res) ==
    LET w1 == setAttr(w, ctx, "exception.message", 0, err.text)
        w2 == HeaderSetContentType(w1, "application/json")
        w3 == WriteHeaderVia(via, w2, code)
        msg == getMsgError(messages, code)
        isValidation == err.kind = "validation"
        nilValidator == isValidation /\ Len(err.failures) > 0 /\ ~o.validator
        errMsgByte == IF isValidation
                      THEN <<[errors |-> Error400Of(err.failures)]>>
                      ELSE <<[message |-> msg]>>
        w4 == RecordErrorOtel(w3, ctx, err)
    IN  IF nilValidator
        THEN [w3 EXCEPT !.panic = NilDeref]
        ELSE WriteVia(via, w4, errMsgByte, res)

\* via: the http.ResponseWriter handed in ("recorder" or "writer");
\* res: what the underlying Write of the body returns
Err(w, o, ctx, via, code, err, messages, res) ==
    LET w1 == setAttr(w, ctx, "exception.message", 0, err.text)
        w2 == HeaderSetContentType(w1, "application/json")
        w3 == WriteHeaderVia(via, w2, code)
        msg == getMsgError(messages, code)
        isValidation == err.kind = "validation"
        nilValidator == isValidation /\ Len(err.failures) > 0 /\ ~o.validator
        errMsgByte == IF isValidation
                      THEN <<[errors |-> Error400Of(err.failures)]>>
                      ELSE <<[message |-> msg]>>
        w4 == IF code >= 500 THEN RecordErrorOtel(w3, ctx, err) ELSE w3
    IN  IF nilValidator
        THEN [w3 EXCEPT !.panic = NilDeref]
        ELSE WriteVia(via, w4, errMsgByte, res)

(* ------------------ Opentelemetry.BindBodyRequest ---------------------- *)
\* StackTrace(err): the error wrapped with the calling function and line
StackTrace(err) == [err EXCEPT !.text = <<"func:line: ">> \o @]

\* the error of a failed io.ReadAll, json.Unmarshal, url.ParseQuery, Decode
ReadError == GenericError(<<"unexpected EOF">>)
UnmarshalError == GenericError(<<"invalid character">>)
ParseQueryError == GenericError(<<"invalid URL escape">>)
DecodeError == GenericError(<<"schema: invalid path">>)

\* ErrorTypeKey.String(tag) on the span of the context
setErrorType(w, ctx, tag) == setAttr(w, ctx, "error.type", 0, <<tag>>)

\* the deferred function: r.Body.Close() failed; err is the variable of the
\* enclosing function as it is when the function returns
bodyCloseFailed(w, ctx, err) ==
    setAttr(setErrorType(w, ctx, "close_error"),
            ctx, "exception.stacktrace", 0, StackTrace(err).text)

\* mutant: an unmarshal failure is answered with 400
BindBodyRequest_Unmarshal400(w, o, ctx, via, in, res) ==
    LET logged == IF ctx.logReqBody = "true"
                  THEN setAttr(w, ctx, "http.request.body.json", 0, in.body.text)
                  ELSE w
        closing(w1, err) == IF in.close = "err" THEN bodyCloseFailed(w1, ctx, err) ELSE w1
    IN  IF in.read = "err"
        THEN [w |-> Err(setErrorType(w, ctx, "read_error"), o, ctx, via, 422,
                        ReadError, <<>>, res),
              ok |-> FALSE]
        ELSE IF ~in.body.parses
        THEN [w |-> closing(Err(setErrorType(logged, ctx, "unmarshal_error"), o, ctx, via,
                                400, StackTrace(UnmarshalError), <<>>, res),
                            UnmarshalError),
              ok |-> FALSE]
        ELSE IF o.validator /\ in.body.failures # <<>>
        THEN [w |-> closing(Err(setErrorType(logged, ctx, "validation_error"), o, ctx, via,
                                400, ValidationError(in.body.failures), <<>>, res),
                            ValidationError(in.body.failures)),
              ok |-> FALSE]
        ELSE [w |-> closing(logged, [kind |-> "nil", text |-> <<"%!w(<nil>)">>,
                                     failures |-> <<>>]),
              ok |-> TRUE]

\* in: [read, body, close]: whether io.ReadAll and Body.Close succeed, and
\* the body with what json.Unmarshal and the validator make of it;
\* the result is the world and the boolean returned
BindBodyRequest(w, o, ctx, via, in, res) ==
    LET logged == IF ctx.logReqBody = "true"
                  THEN setAttr(w, ctx, "http.request.body.json", 0, in.body.text)
                  ELSE w
        closing(w1, err) == IF in.close = "err" THEN bodyCloseFailed(w1, ctx, err) ELSE w1
    IN  IF in.read = "err"
        THEN [w |-> Err(setErrorType(w, ctx, "read_error"), o, ctx, via, 422,
                        ReadError, <<>>, res),
              ok |-> FALSE]
        ELSE IF ~in.body.parses
        THEN [w |-> closing(Err(setErrorType(logged, ctx, "unmarshal_error"), o, ctx, via,
                                422, StackTrace(UnmarshalError), <<>>, res),
                            UnmarshalError),
              ok |-> FALSE]
        ELSE IF o.validator /\ in.body.failures # <<>>
        THEN [w |-> closing(Err(setErrorType(logged, ctx, "validation_error"), o, ctx, via,
                                400, ValidationError(in.body.failures), <<>>, res),
                            ValidationError(in.body.failures)),
              ok |-> FALSE]
        ELSE [w |-> closing(logged, [kind |-> "nil", text |-> <<"%!w(<nil>)">>,
                                     failures |-> <<>>]),
              ok |-> TRUE]

(* ------------------- Opentelemetry.BindQueryParam ---------------------- *)
\* r.Form: nil, or the map of the values copied into it
NilForm == [nil |-> TRUE, values |-> {}]

\* ParseQueryParam(r): a nil r.Form is made, then the values of the parsed
\* raw query are copied into it; the result is the form and whether
\* url.ParseQuery succeeded
ParseQueryParam(form, query) ==
    LET made == [form EXCEPT !.nil = FALSE]
    IN  IF ~query.parses THEN [form |-> made, ok |-> FALSE]
        ELSE [form |-> [made EXCEPT !.values = @ \cup query.values], ok |-> TRUE]

\* mutant: a decode failure is answered but the bind goes on
BindQueryParam_DecodeFallsThrough(w, o, ctx, via, form, query, res) ==
    LET parsed == ParseQueryParam(form, query)
        decoded == IF query.decodes THEN w
                   ELSE Err(setErrorType(w, ctx, "decoder_schema"), o, ctx, via, 400,
                            StackTrace(DecodeError), <<>>, res)
    IN  IF ~parsed.ok
        THEN [w |-> Err(setErrorType(w, ctx, "parse_query_param"), o, ctx, via, 400,
                        StackTrace(StackTrace(ParseQueryError)), <<>>, res),
              form |-> parsed.form, ok |-> FALSE]
        ELSE IF o.validator /\ query.failures # <<>>
        THEN [w |-> Err(setErrorType(decoded, ctx, "validation_error"), o, ctx, via, 400,
                        ValidationError(query.failures), <<>>, res),
              form |-> NilForm, ok |-> FALSE]
        ELSE [w |-> decoded, form |-> NilForm, ok |-> TRUE]

\* query: [parses, values, decodes, failures]: whether url.ParseQuery
\* accepts the raw query and the values it yields, whether the schema
\* decoder accepts them, and the failures the validator finds in the target;
\* the result is the world, r.Form and the boolean returned
BindQueryParam(w, o, ctx, via, form, query, res) ==
    LET parsed == ParseQueryParam(form, query)
    IN  IF ~parsed.ok
        THEN [w |-> Err(setErrorType(w, ctx, "parse_query_param"), o, ctx, via, 400,
                        StackTrace(StackTrace(ParseQueryError)), <<>>, res),
              form |-> parsed.form, ok |-> FALSE]
        ELSE IF ~query.decodes
        THEN [w |-> Err(setErrorType(w, ctx, "decoder_schema"), o, ctx, via, 400,
                        StackTrace(DecodeError), <<>>, res),
              form |-> parsed.form, ok |-> FALSE]
        ELSE IF o.validator /\ query.failures # <<>>
        THEN [w |-> Err(setErrorType(w, ctx, "validation_error"), o, ctx, via, 400,
                        ValidationError(query.failures), <<>>, res),
              form |-> NilForm, ok |-> FALSE]
        ELSE [w |-> w, form |-> NilForm, ok |-> TRUE]

(* ---------------------- Opentelemetry.recoverHandler ------------------- *)
\* r: the recovered value; the result's panic field is the value re-raised
\* to the caller of the handler ("" when the handler returns)
Repanic(w, r) ==
    [w EXCEPT !.log = Append(@, Ev("caller", "panic", r, 0, <<>>)),
              !.panic = r]

\* lines 313-315 and 318-320: record the stack, end the span, panic again
recoverRaise(w, r) ==
    Repanic(SpanCall(SpanCall(w, "RecordError", "", 0, StackError.text),
                     "End", "", 0, <<>>),
            r)

\* mutant: the error response is written on Upgrade requests too
recoverRespond_IgnoresUpgrade(w, o, request, r, res) ==
    LET w2 == IF o.logStdOutPanic
              THEN [w EXCEPT !.log = Append(@, Ev("stdout", "PrintPrettyStack", r, 0, <<>>))]
              ELSE w
        w3 == Err(w2, o, request.ctx, "writer", 500, StackError, <<>>, res)
    IN  SpanCall(w3, "End", "", 0, <<>>)

\* mutant: Err is handed the request as it arrived, whose context has no span
recoverRespond_StaleRequest(w, o, request, r, res) ==
    LET w2 == IF o.logStdOutPanic
              THEN [w EXCEPT !.log = Append(@, Ev("stdout", "PrintPrettyStack", r, 0, <<>>))]
              ELSE w
        w3 == IF request.connection # "Upgrade"
              THEN Err(w2, o, [hasSpan |-> FALSE, recording |-> FALSE], "writer", 500,
                       StackError, <<>>, res)
              ELSE SpanCall(w2, "RecordError", "", 0, StackError.text)
    IN  SpanCall(w3, "End", "", 0, <<>>)

\* lines 322-336: recover mode
recoverRespond(w, o, request, r, res) ==
    LET w2 == IF o.logStdOutPanic
              THEN [w EXCEPT !.log = Append(@, Ev("stdout", "PrintPrettyStack", r, 0, <<>>))]
              ELSE w
        w3 == IF request.connection # "Upgrade"
              THEN Err(w2, o, request.ctx, "writer", 500, StackError, <<>>, res)
              ELSE SpanCall(w2, "RecordError", "", 0, StackError.text)
    IN  SpanCall(w3, "End", "", 0, <<>>)

\* mutant: recover mode also swallows http.ErrAbortHandler
Reraises_UnlessRecover(o, r) == ~o.recover

\* mutant: every panic but http.ErrAbortHandler is recovered
Reraises_OnlyAbort(o, r) == r = "ErrAbortHandler"

\* lines 310 and 317: the panics that are raised again
Reraises(o, r) == r = "ErrAbortHandler" \/ ~o.recover

recoverHandler(w, o, request, r, res) ==
    LET w0 == [w EXCEPT !.panic = ""]
        w1 == SpanCall(SpanCall(w0, "SetAttributes", "exception.type", 0, <<>>),
                       "SetAttributes", "exception.message", 0, <<r>>)
    IN  IF Reraises(o, r) THEN recoverRaise(w1, r)
        ELSE recoverRespond(w1, o, request, r, res)

(* ----------------------------- NewOtel --------------------------------- *)
WithRecoverMode(logStdOutPanic) == [opt |-> "recover", val |-> logStdOutPanic]
WithValidator == [opt |-> "validator", val |-> TRUE]

ApplyOtelOption(o, opt) ==
    CASE opt.opt = "recover" -> [o EXCEPT !.logStdOutPanic = opt.val, !.recover = TRUE]
      [] opt.opt = "validator" -> [o EXCEPT !.validator = TRUE]

RECURSIVE ApplyOtelOptions(_, _)
ApplyOtelOptions(o, opts) ==
    IF opts = <<>> THEN o
    ELSE ApplyOtelOptions(ApplyOtelOption(o, Head(opts)), Tail(opts))

\* validator: whether o.validator is non-nil
NewOtel(opts) ==
    ApplyOtelOptions([recover |-> FALSE, logStdOutPanic |-> FALSE, validator |-> FALSE],
                     opts)

(* ------------------------------ inputs --------------------------------- *)
\* the option lists NewOtel is called with
OtelOptionLists ==
    {<<>>, <<WithRecoverMode(FALSE)>>, <<WithRecoverMode(TRUE), WithValidator>>}

\* the option lists Trace is called with
TraceOptionLists == {<<>>, <<WithLogResponseBody(FALSE)>>}

\* the Connection header of the request
Connections == {"Upgrade", "keep-alive"}

\* the Err calls the wrapped handler makes: code, error, override messages
HandlerErrs ==
    {[code |-> 500, err |-> GenericError(<<"db down">>), messages |-> <<>>],
     [code |-> 422, err |-> GenericError(<<"bad json">>), messages |-> <<"bad", "input">>],
     [code |-> 400,
      err |-> ValidationError(<<[field |-> "email", tag |-> "required"]>>),
      messages |-> <<>>]}

(* ------------------------------- state --------------------------------- *)
VARIABLES
    o,          \* the Opentelemetry instance
    options,    \* the options Trace was called with
    request,    \* the request: Connection header and its context
    rec,        \* the recorder of the request
    sink,       \* the http.ResponseWriter the server handed to the handler
    log,        \* calls on the span and on the sink, panics to the caller
    ret,        \* what the last Write on the recorder returned
    call,       \* the last call the wrapped handler made
    calls,      \* how many calls the wrapped handler has made
    thrown,     \* the value the wrapped handler panicked with, "" when none
    pc,         \* "idle", "serving", "done"
    exit        \* how the handler returned by Trace ended

vars == <<o, options, request, rec, sink, log, ret, call, calls, thrown, pc, exit>>

NoCall == [op |-> "none", code |-> 0, body |-> <<>>]

World == [rec |-> rec, sink |-> sink, log |-> log, ret |-> ret, panic |-> ""]

Commit(w) ==
    /\ rec' = w.rec
    /\ sink' = w.sink
    /\ log' = w.log
    /\ ret' = w.ret

Init ==
    /\ o \in {NewOtel(opts) : opts \in OtelOptionLists}
    /\ options \in TraceOptionLists
    /\ request \in {[connection |-> c,
                      ctx |-> [hasSpan |-> FALSE, recording |-> FALSE, logReqBody |-> "unset"]] :
                        c \in Connections}
    /\ rec = NewRecorder
    /\ sink = NewSink
    /\ log = <<>>
    /\ ret = NoRet
    /\ call = NoCall
    /\ calls = 0
    /\ thrown = ""
    /\ pc = "idle"
    /\ exit = "none"

(* --------------------- Opentelemetry.Trace: entry ---------------------- *)
\* next.ServeHTTP(recorder, request) is called, and returns
NextCall(w, op) == [w EXCEPT !.log = Append(@, Ev("next", op, "", 0, <<>>))]

\* From the call of the returned handler up to next.ServeHTTP: the recorder
\* is built, the span is started, the request headers and the query go to
\* the span, the request gets the context that carries the span.
TraceBefore(w, opts, req) ==
    LET recorder == ApplyOptions(NewRecorder, opts)
        w0 == [w EXCEPT !.rec = recorder]
        w1 == SpanCall(w0, "Start", "", 0, <<>>)
        w2 == SpanCall(w1, "SetAttributes",
                       "http.request.header." \o convertHeaderName("Connection"),
                       0, <<req.connection>>)
        w3 == IF recorder.logParams
              THEN SpanCall(SpanCall(w2, "SetAttributes", "http.request.query.raw", 0, <<>>),
                            "SetAttributes", "http.request.query.params", 0, <<>>)
              ELSE w2
    IN  NextCall(w3, "ServeHTTP")

\* the context of the request handed to next.ServeHTTP
TraceContext(opts, recording) ==
    [hasSpan |-> TRUE, recording |-> recording,
     logReqBody |-> BoolValue(ApplyOptions(NewRecorder, opts).logReqBody)]

TraceEnter(recording) ==
    /\ pc = "idle"
    /\ Commit(TraceBefore(World, options, request))
    /\ request' = [request EXCEPT !.ctx = TraceContext(options, recording)]
    /\ pc' = "serving"
    /\ UNCHANGED <<o, options, call, calls, thrown, exit>>

(* ------------- Opentelemetry.Trace: the deferred function -------------- *)
\* recover() returned r # nil: recoverHandler runs, with the writer Trace was
\* given and the request as it is when the panic arrives
\* mutant: the deferred function ends the span itself after recoverHandler
Recovered_EndsAgain(w, r, res) ==
    LET w1 == recoverHandler(w, o, request, r, res)
    IN  IF w1.panic = "" THEN SpanCall(w1, "End", "", 0, <<>>) ELSE w1

Recovered(w, r, res) == recoverHandler(w, o, request, r, res)

\* the handler returned by Trace is left: by return, or by the panic that
\* recoverHandler raised again
Leave(w) ==
    /\ Commit(w)
    /\ pc' = "done"
    /\ exit' = IF w.panic = "" THEN "return" ELSE w.panic

(* ------------------------ the wrapped handler -------------------------- *)
HandlerWriteHeader(code) ==
    /\ pc = "serving"
    /\ calls < MaxCalls
    /\ Commit(RW_WriteHeader(World, code))
    /\ call' = [op |-> "WriteHeader", code |-> code, body |-> <<>>]
    /\ calls' = calls + 1
    /\ UNCHANGED <<o, options, request, thrown, pc, exit>>

HandlerWrite(body, res) ==
    /\ pc = "serving"
    /\ calls < MaxCalls
    /\ Commit(RW_Write(World, body, res))
    /\ call' = [op |-> "Write", code |-> 0, body |-> body]
    /\ calls' = calls + 1
    /\ UNCHANGED <<o, options, request, thrown, pc, exit>>

\* o.Err(w, r, ...) with the recorder and the request the handler was given;
\* a nil validator makes Err panic, and the panic unwinds into the deferred
\* function of Trace
HandlerErr(e, res, res2) ==
    /\ pc = "serving"
    /\ calls < MaxCalls
    /\ call' = [op |-> "Err", code |-> e.code, body |-> <<>>]
    /\ calls' = calls + 1
    /\ LET w == Err(World, o, request.ctx, "recorder", e.code, e.err, e.messages, res)
       IN  IF w.panic = ""
           THEN /\ Commit(w)
                /\ res2 = res
                /\ UNCHANGED <<thrown, pc, exit>>
           ELSE /\ thrown' = w.panic
                /\ Leave(Recovered(w, w.panic, res2))
    /\ UNCHANGED <<o, options, request>>

\* mutant: the span is ended before it is renamed
TraceAfter_EndsBeforeRename(w) ==
    LET w1 == SpanCall(w, "SetAttributes", "http.response.status_code",
                       w.rec.status, <<>>)
        w2 == SpanCall(w1, "SetAttributes", "http.response.size.format",
                       0, formatSize(w.rec.size))
        w3 == SpanCall(w2, "SetAttributes", "http.response.size.raw", w.rec.size, <<>>)
        w4 == IF w.sink.contentType # ""
              THEN SpanCall(w3, "SetAttributes",
                            "http.request.header." \o convertHeaderName("Content-Type"),
                            0, <<w.sink.contentType>>)
              ELSE w3
        w5 == IF w.rec.logRespBody
              THEN SpanCall(w4, "SetAttributes", "http.response.body",
                            0, BufferString(w.rec.buffer))
              ELSE w4
        w6 == SpanCall(w5, "End", "", 0, <<>>)
        w7 == SpanCall(w6, "SetName", "", w.rec.status, <<>>)
    IN  w7

\* Trace after next.ServeHTTP returned: the response attributes go to the
\* span, the span is renamed, and the deferred function ends it
TraceAfter(w) ==
    LET w1 == SpanCall(w, "SetAttributes", "http.response.status_code",
                       w.rec.status, <<>>)
        w2 == SpanCall(w1, "SetAttributes", "http.response.size.format",
                       0, formatSize(w.rec.size))
        w3 == SpanCall(w2, "SetAttributes", "http.response.size.raw", w.rec.size, <<>>)
        w4 == IF w.sink.contentType # ""
              THEN SpanCall(w3, "SetAttributes",
                            "http.request.header." \o convertHeaderName("Content-Type"),
                            0, <<w.sink.contentType>>)
              ELSE w3
        w5 == IF w.rec.logRespBody
              THEN SpanCall(w4, "SetAttributes", "http.response.body",
                            0, BufferString(w.rec.buffer))
              ELSE w4
        w6 == SpanCall(w5, "SetName", "", w.rec.status, <<>>)
        w7 == SpanCall(w6, "End", "", 0, <<>>)
    IN  w7

\* next.ServeHTTP returns
HandlerReturn ==
    /\ pc = "serving"
    /\ Leave(TraceAfter(NextCall(World, "return")))
    /\ UNCHANGED <<o, options, request, call, calls, thrown>>

\* the wrapped handler panics with r
HandlerPanic(r, res) ==
    /\ pc = "serving"
    /\ thrown' = r
    /\ Leave(Recovered(World, r, res))
    /\ UNCHANGED <<o, options, request, call, calls>>

Next ==
    \/ \E recording \in BOOLEAN : TraceEnter(recording)
    \/ \E code \in HandlerCodes : HandlerWriteHeader(code)
    \/ \E body \in Bodies : \E res \in SinkResults(body) : HandlerWrite(body, res)
    \/ \E e \in HandlerErrs : \E res, res2 \in SinkResults(<<"json">>) :
            HandlerErr(e, res, res2)
    \/ HandlerReturn
    \/ \E r \in PanicValues : \E res \in SinkResults(<<"json">>) : HandlerPanic(r, res)

Spec == Init /\ [][Next]_vars

(* ======================================================================= *)
(*                               properties                                *)
(* ======================================================================= *)
IsSinkWrite(e) == e.tgt = "sink" /\ e.op = "Write"
IsSpanEnd(e) == e.tgt = "span" /\ e.op = "End"

\* the underlying Write calls made so far
SinkWrites == SelectSeq(log, IsSinkWrite)

RECURSIVE SumCounts(_)
SumCounts(evs) == IF evs = <<>> THEN 0 ELSE Head(evs).num + SumCounts(Tail(evs))

RECURSIVE ConcatBodies(_)
ConcatBodies(evs) == IF evs = <<>> THEN <<>> ELSE Head(evs).txt \o ConcatBodies(Tail(evs))

EndCount == Len(SelectSeq(log, IsSpanEnd))

\* C1: the span of a request is ended exactly once on every exit path of the
\* handler returned by Trace (return, return after Err, panic raised again,
\* panic recovered), and is not ended before the handler is left.
C1_EndExactlyOnce ==
    /\ pc = "done" => EndCount = 1
    /\ pc # "done" => EndCount = 0

\* C1 witness: the wrapped handler wrote an error response through Err and
\* returned, and the span was ended once
C1_Witness ==
    /\ pc = "done" /\ thrown = "" /\ call.op = "Err" /\ exit = "return"
    /\ EndCount = 1

\* C2: after any sequence of Write calls on the recorder, the recorded size
\* is the sum of the counts the underlying writer returned over all of them.
C2_SizeIsCumulative ==
    pc = "serving" => rec.size = SumCounts(SinkWrites)

\* C3: with response-body logging on, the buffer of the recorder holds the
\* concatenation, in call order, of the bytes passed to every Write.
C3_BufferHoldsWholeBody ==
    (pc = "serving" /\ rec.logRespBody /\ SinkWrites # <<>>)
        => rec.buffer.data = ConcatBodies(SinkWrites)

\* C4: once the recorded status is non-zero, no later WriteHeader or Write
\* changes it.
C4_FirstStatusWins ==
    [][rec.status # 0 => rec'.status = rec.status]_vars

\* a step in which the wrapped handler calls Write on the recorder
WriteStep == calls' = calls + 1 /\ call'.op = "Write"

\* C5: a Write while no status is recorded records 200 and records as size
\* the count the underlying writer returned; a Write after a status was
\* recorded leaves the status as it is.
C5_ImplicitOK ==
    [][WriteStep =>
        /\ rec.status = 0 => rec'.status = 200
        /\ rec.status # 0 => rec'.status = rec.status
        /\ rec'.size = log'[Len(log')].num]_vars

\* C5 witness: the first call was a short Write: status 200, size 1 of 2
C5_Witness ==
    /\ pc = "serving" /\ calls = 1 /\ call.op = "Write"
    /\ Len(call.body) = 2 /\ rec.status = 200 /\ rec.size = 1

\* C6: a Write on the recorder makes exactly one underlying Write, with
\* exactly the bytes it was given, and returns the (count, error) pair the
\* underlying Write returned, with or without response-body logging.
C6_WriteForwards ==
    [][WriteStep =>
        /\ Len(log') = Len(log) + 1
        /\ SubSeq(log', 1, Len(log)) = log
        /\ LET e == log'[Len(log')]
           IN  /\ IsSinkWrite(e)
               /\ e.txt = call'.body
               /\ ret'.n = e.num
               /\ ret'.err = (e.key = "error")
               /\ sink'.data = sink.data \o SubSeq(call'.body, 1, e.num)]_vars

\* C6 witness: a Write without response-body logging that the underlying
\* writer cut short
C6_Witness ==
    /\ pc = "serving" /\ call.op = "Write" /\ ~rec.logRespBody
    /\ ret.err /\ ret.n = 1 /\ Len(call.body) = 2

(* ------------------------- the recovery path --------------------------- *)
\* an event without its text; an underlying Write also without its result
Shape(e) ==
    [tgt |-> e.tgt, op |-> e.op,
     key |-> IF IsSinkWrite(e) THEN "" ELSE e.key,
     num |-> IF IsSinkWrite(e) THEN 0 ELSE e.num]

S(tgt, op, key, num) == [tgt |-> tgt, op |-> op, key |-> key, num |-> num]

\* the events from the entry of recoverHandler on (it alone sets
\* exception.type); empty when the wrapped handler did not panic
RecoverPart ==
    IF \E i \in 1..Len(log) : log[i].key = "exception.type"
    THEN SubSeq(log, CHOOSE i \in 1..Len(log) : log[i].key = "exception.type", Len(log))
    ELSE <<>>

RecoverShapes == [i \in 1..Len(RecoverPart) |-> Shape(RecoverPart[i])]

\* the text of the errors recorded on the span during recovery is the stack
RecordsStack ==
    \A i \in 1..Len(RecoverPart) :
        RecoverPart[i].op = "RecordError" => RecoverPart[i].txt = StackError.text

ExceptionAttrs ==
    <<S("span", "SetAttributes", "exception.type", 0),
      S("span", "SetAttributes", "exception.message", 0)>>

\* record the error, end the span, raise r again: nothing goes to the client
RaisedAgain(r) ==
    /\ RecoverShapes = ExceptionAttrs \o
            <<S("span", "RecordError", "", 0), S("span", "End", "", 0),
              S("caller", "panic", r, 0)>>
    /\ RecordsStack
    /\ exit = r

StdOut == IF o.logStdOutPanic THEN <<S("stdout", "PrintPrettyStack", thrown, 0)>> ELSE <<>>

\* C7: when the wrapped handler panics with http.ErrAbortHandler, with or
\* without recover mode, the middleware records an error on the span, then
\* ends the span, then panics again with the same value, and writes no
\* status and no body.
C7_AbortIsRaisedAgain ==
    (pc = "done" /\ thrown = "ErrAbortHandler") => RaisedAgain("ErrAbortHandler")

\* C7 witness: http.ErrAbortHandler left the handler although recover mode is on
C7_Witness ==
    /\ pc = "done" /\ thrown = "ErrAbortHandler" /\ o.recover
    /\ exit = "ErrAbortHandler" /\ EndCount = 1

\* C8: without recover mode, a panic of the wrapped handler with any value
\* has the error recorded on the span, the span ended and the same value
\* raised again, and the Error Responder is not called.
C8_NoRecoverModeRaisesAgain ==
    (pc = "done" /\ thrown # "" /\ ~o.recover) => RaisedAgain(thrown)

\* C8 witness: a panic with an ordinary value left the handler, recover mode off
C8_Witness ==
    /\ pc = "done" /\ thrown = "boom" /\ ~o.recover /\ exit = "boom"

\* recover mode is on and the panic is not http.ErrAbortHandler
RecoveredPanic ==
    pc = "done" /\ o.recover /\ thrown # "" /\ thrown # "ErrAbortHandler"

\* C9: in recover mode, a panic other than http.ErrAbortHandler on a request
\* with Connection: Upgrade writes no status and no body, records an error
\* on the span, ends the span, and the handler returns.
C9_UpgradeOnlyRecords ==
    (RecoveredPanic /\ request.connection = "Upgrade") =>
        /\ RecoverShapes = ExceptionAttrs \o StdOut \o
                <<S("span", "RecordError", "", 0), S("span", "End", "", 0)>>
        /\ RecordsStack
        /\ exit = "return"

\* C9 witness: a recovered panic on an Upgrade request
C9_Witness ==
    /\ RecoveredPanic /\ thrown = "boom" /\ request.connection = "Upgrade"
    /\ exit = "return" /\ EndCount = 1

\* what Err(writer, request, 500, stack) does, given whether the error
\* reaches the span
ErrShapes(onSpan) ==
    (IF request.ctx.recording
     THEN <<S("span", "SetAttributes", "exception.message", 0)>> ELSE <<>>) \o
    <<S("sink", "WriteHeader", "", 500)>> \o
    (IF onSpan
     THEN <<S("span", "RecordError", "", 0), S("span", "SetStatus", "Error", 0)>>
     ELSE <<>>) \o
    <<S("sink", "Write", "", 0)>>

\* the recovery wrote the basic JSON body of status 500 as application/json
WroteBasic500 ==
    /\ \A i \in 1..Len(RecoverPart) :
           IsSinkWrite(RecoverPart[i]) =>
               RecoverPart[i].txt = <<[message |-> <<StatusText(500)>>]>>
    /\ sink.contentType = "application/json"

Responded500(onSpan) ==
    /\ RecoverShapes = ExceptionAttrs \o StdOut \o ErrShapes(onSpan) \o
            <<S("span", "End", "", 0)>>
    /\ RecordsStack
    /\ WroteBasic500
    /\ exit = "return"

\* C10 as stated: in recover mode, a panic other than http.ErrAbortHandler on
\* a request that is no Upgrade calls the Error Responder once with 500 and
\* the stack (status 500 and the basic JSON body are written, the error is
\* recorded on the span of the request), then ends the span, and the
\* handler returns.
C10_AlwaysRecordsOnSpan ==
    (RecoveredPanic /\ request.connection # "Upgrade") => Responded500(TRUE)

\* C10 amended: as above, the error being recorded on the span of the
\* request exactly when that span is recording.
C10_Responds500 ==
    (RecoveredPanic /\ request.connection # "Upgrade") =>
        Responded500(request.ctx.recording)

\* C10 witness: a recovered panic answered with 500 on a recording span
C10_Witness ==
    /\ RecoveredPanic /\ request.connection # "Upgrade" /\ request.ctx.recording
    /\ exit = "return" /\ Len(SinkWrites) >= 1
    /\ \E i \in 1..Len(RecoverPart) : RecoverPart[i].op = "SetStatus"

(* ======================================================================= *)
(*        direct calls of Err, BindBodyRequest and BindQueryParam          *)
(* ======================================================================= *)
\* One call of an exported method on a fresh recorder, with its arguments
\* held in `call` from the start: pc goes from "idle" to "done", thrown is
\* the value the call panicked with, exit what it returned.

\* the contexts a request can carry: no span, a span that is not recording,
\* a recording span
Contexts ==
    {[hasSpan |-> s[1], recording |-> s[2], logReqBody |-> l] :
        s \in {<<FALSE, FALSE>>, <<TRUE, FALSE>>, <<TRUE, TRUE>>},
        l \in {"unset", "true", "false"}}

\* the validation failure lists: none, one, two fields, one field twice
FailureLists ==
    {<<>>,
     <<[field |-> "email", tag |-> "required"]>>,
     <<[field |-> "email", tag |-> "required"], [field |-> "age", tag |-> "min"]>>,
     <<[field |-> "email", tag |-> "required"], [field |-> "email", tag |-> "format"]>>}

ErrCodes == {400, 499, 500, 503}

MessageLists == {<<>>, <<"bad">>, <<"bad", "input">>}

\* the arguments of the Err calls
ErrCalls ==
    {[op |-> "Err", code |-> c, err |-> e, messages |-> m] :
        c \in ErrCodes,
        e \in {GenericError(<<"db down">>)} \cup {ValidationError(f) : f \in FailureLists},
        m \in MessageLists}

ApiInit(inputs) ==
    /\ o \in {NewOtel(<<>>), NewOtel(<<WithValidator>>)}
    /\ options = <<>>
    /\ request \in {[connection |-> "keep-alive", ctx |-> c, form |-> f] :
                        c \in Contexts, f \in {NilForm, [nil |-> FALSE, values |-> {"page=1"}]}}
    /\ rec = NewRecorder
    /\ sink = NewSink
    /\ log = <<>>
    /\ ret = NoRet
    /\ call \in inputs
    /\ calls = 0
    /\ thrown = ""
    /\ pc = "idle"
    /\ exit = "none"

\* o.Err(w, r, code, err, messages...) with w the recorder or a plain writer
ErrCall(via, res) ==
    /\ pc = "idle"
    /\ call.op = "Err"
    /\ LET w == Err(World, o, request.ctx, via, call.code, call.err, call.messages, res)
       IN  /\ Commit(w)
           /\ thrown' = w.panic
           /\ exit' = IF w.panic = "" THEN "return" ELSE "panic"
    /\ calls' = 1
    /\ pc' = "done"
    /\ UNCHANGED <<o, options, request, call>>

ErrInit == ApiInit(ErrCalls)

ErrNext ==
    \E via \in {"recorder", "writer"} : \E res \in SinkResults(<<"json">>) : ErrCall(via, res)

ErrSpec == ErrInit /\ [][ErrNext]_vars

IsSpanEv(e) == e.tgt = "span"
IsSinkEv(e) == e.tgt = "sink"

SpanEvents == SelectSeq(log, IsSpanEv)
SinkEvents == SelectSeq(log, IsSinkEv)

ShapesOf(evs) == [i \in 1..Len(evs) |-> Shape(evs[i])]

\* an Err call that returned (its body was serialized and written)
ErrReturned == pc = "done" /\ call.op = "Err" /\ thrown = ""

\* C11: an Err call whose body serializes attaches the message of the error
\* to the recording span of the request for every code, and calls
\* RecordError and SetStatus(Error) on it exactly when code >= 500; without
\* a recording span it makes no span call.
C11_RecordsFrom500 ==
    ErrReturned =>
        /\ ShapesOf(SpanEvents) =
              IF ~IsRecording(request.ctx) THEN <<>>
              ELSE <<S("span", "SetAttributes", "exception.message", 0)>> \o
                   (IF call.code >= 500
                    THEN <<S("span", "RecordError", "", 0), S("span", "SetStatus", "Error", 0)>>
                    ELSE <<>>)
        /\ \A i \in 1..Len(SpanEvents) : SpanEvents[i].txt = call.err.text

\* C11 witness: a 4xx Err call on a recording span left only the attribute
C11_Witness ==
    /\ ErrReturned /\ call.code = 499 /\ IsRecording(request.ctx)
    /\ Len(SpanEvents) = 1

\* an Err call that was made, whether it returned or panicked
ErrDone == pc = "done" /\ call.op = "Err"

\* the underlying Write calls of the body: the documents written
WrittenDocs == [i \in 1..Len(SinkWrites) |-> SinkWrites[i].txt]

\* the override messages joined with ". ", or the status text of the code
ExpectedMessage ==
    CASE Len(call.messages) = 0 -> <<StatusText(call.code)>>
      [] Len(call.messages) = 1 -> <<call.messages[1]>>
      [] Len(call.messages) = 2 -> <<call.messages[1], ". ", call.messages[2]>>

IsErrorsDoc(body) == Len(body) = 1 /\ "errors" \in DOMAIN body[1]

\* C12: Err sets Content-Type: application/json, writes the code as status
\* and writes one body chosen by the type of the error: {"errors": {...}}
\* for validation failures, else {"message": m} with m the override messages
\* joined with ". ", or the status text of the code when there is none.
C12_BodyByErrorType ==
    ErrDone =>
        /\ sink.contentType = "application/json"
        /\ Len(SinkEvents) = 2
        /\ Shape(SinkEvents[1]) = S("sink", "WriteHeader", "", call.code)
        /\ IsSinkWrite(SinkEvents[2])
        /\ IF call.err.kind = "validation"
           THEN IsErrorsDoc(SinkEvents[2].txt)
           ELSE SinkEvents[2].txt = <<[message |-> ExpectedMessage]>>

\* C18: Err with validation failures returns and writes the {"errors": ...}
\* body also when the Opentelemetry instance has no validator.
C18_NoValidatorReturns ==
    (ErrDone /\ call.err.kind = "validation" /\ ~o.validator) =>
        /\ thrown = ""
        /\ exit = "return"
        /\ Len(SinkWrites) = 1
        /\ IsErrorsDoc(SinkWrites[1].txt)

\* C19: the errors mapping Err writes has a key for every failing field, and
\* the message of every failure is in the list stored under its field, also
\* when two failures carry the same field name.
C19_NoFailureDropped ==
    (ErrReturned /\ call.err.kind = "validation") =>
        /\ Len(SinkWrites) = 1
        /\ IsErrorsDoc(SinkWrites[1].txt)
        /\ LET errors == SinkWrites[1].txt[1].errors
               failures == call.err.failures
           IN  \A i \in 1..Len(failures) :
                   /\ failures[i].field \in DOMAIN errors
                   /\ \E k \in 1..Len(errors[failures[i].field]) :
                          errors[failures[i].field][k] = Translate(failures[i])

(* --------------- direct calls of the two bind operations --------------- *)
\* what json.Unmarshal and the validator make of a request body
RequestBodies ==
    {[text |-> <<"{json}">>, parses |-> p, failures |-> f] :
        p \in BOOLEAN, f \in {<<>>, <<[field |-> "email", tag |-> "required"]>>}}

BindBodyCalls ==
    {[op |-> "BindBodyRequest", read |-> r, body |-> b, close |-> c] :
        r \in {"ok", "err"}, b \in RequestBodies, c \in {"ok", "err"}}

\* what url.ParseQuery, the schema decoder and the validator make of a query
BindQueryCalls ==
    {[op |-> "BindQueryParam", parses |-> p, values |-> {"q=go"}, decodes |-> d,
      failures |-> f] :
        p \in BOOLEAN, d \in BOOLEAN,
        f \in {<<>>, <<[field |-> "q", tag |-> "max"]>>}}

BindBodyCall(via, res) ==
    /\ pc = "idle"
    /\ call.op = "BindBodyRequest"
    /\ LET b == BindBodyRequest(World, o, request.ctx, via, call, res)
       IN  /\ Commit(b.w)
           /\ thrown' = b.w.panic
           /\ exit' = BoolValue(b.ok)
    /\ calls' = 1
    /\ pc' = "done"
    /\ UNCHANGED <<o, options, request, call>>

BindQueryCall(via, res) ==
    /\ pc = "idle"
    /\ call.op = "BindQueryParam"
    /\ LET b == BindQueryParam(World, o, request.ctx, via, request.form, call, res)
       IN  /\ Commit(b.w)
           /\ thrown' = b.w.panic
           /\ exit' = BoolValue(b.ok)
           /\ request' = [request EXCEPT !.form = b.form]
    /\ calls' = 1
    /\ pc' = "done"
    /\ UNCHANGED <<o, options, call>>

BindInit == ApiInit(BindBodyCalls \cup BindQueryCalls)

BindNext ==
    \E via \in {"recorder", "writer"} : \E res \in SinkResults(<<"json">>) :
        \/ BindBodyCall(via, res)
        \/ BindQueryCall(via, res)

BindSpec == BindInit /\ [][BindNext]_vars

\* a bind call that was made
BindBodyDone == pc = "done" /\ call.op = "BindBodyRequest"
BindQueryDone == pc = "done" /\ call.op = "BindQueryParam"

NoFailure == [code |-> 0, tag |-> ""]

\* the first failing step of the body bind, by the inputs alone
BodyFailure ==
    CASE call.read = "err" -> [code |-> 422, tag |-> "read_error"]
      [] call.read = "ok" /\ ~call.body.parses -> [code |-> 422, tag |-> "unmarshal_error"]
      [] call.read = "ok" /\ call.body.parses /\ o.validator /\ call.body.failures # <<>> ->
            [code |-> 400, tag |-> "validation_error"]
      [] OTHER -> NoFailure

\* the first failing step of the query bind, by the inputs alone
QueryFailure ==
    CASE ~call.parses -> [code |-> 400, tag |-> "parse_query_param"]
      [] call.parses /\ ~call.decodes -> [code |-> 400, tag |-> "decoder_schema"]
      [] call.parses /\ call.decodes /\ o.validator /\ call.failures # <<>> ->
            [code |-> 400, tag |-> "validation_error"]
      [] OTHER -> NoFailure

\* the events of the deferred Close and of the request-body logging
IsCloseOrBodyLog(e) ==
    \/ e.key = "http.request.body.json"
    \/ e.key = "exception.stacktrace"
    \/ e.key = "error.type" /\ e.txt = <<"close_error">>

IsBindEv(e) == ~IsCloseOrBodyLog(e)

\* the calls of one failing bind: the error type on the recording span, then
\* one Err call of a 4xx code (message attribute, status, body)
FailureShapes(f) ==
    IF f = NoFailure THEN <<>>
    ELSE (IF IsRecording(request.ctx)
          THEN <<S("span", "SetAttributes", "error.type", 0),
                 S("span", "SetAttributes", "exception.message", 0)>>
          ELSE <<>>) \o
         <<S("sink", "WriteHeader", "", f.code), S("sink", "Write", "", 0)>>

\* the error type set on the span, if any, is the tag
TaggedWith(evs, f) ==
    \A i \in 1..Len(evs) : evs[i].key = "error.type" => evs[i].txt = <<f.tag>>

\* C13: BindBodyRequest returns false exactly when reading fails, the body
\* does not unmarshal, or a validator is configured and validation fails; a
\* failing bind tags the recording span read_error, unmarshal_error or
\* validation_error and calls Err exactly once with 422, 422 or 400; a bind
\* that returns true has written no status, header or body.
C13_BodyBindFailsExactly ==
    BindBodyDone =>
        /\ thrown = ""
        /\ exit = BoolValue(BodyFailure = NoFailure)
        /\ ShapesOf(SelectSeq(log, IsBindEv)) = FailureShapes(BodyFailure)
        /\ TaggedWith(SelectSeq(log, IsBindEv), BodyFailure)
        /\ exit = "true" => sink = NewSink /\ rec = NewRecorder

\* C13 witness: with a validator, a body that unmarshals but fails
\* validation was answered 400 and the bind returned false
C13_Witness ==
    /\ BindBodyDone /\ BodyFailure.tag = "validation_error"
    /\ exit = "false" /\ sink.status = 400

\* C14: BindQueryParam returns false exactly when the raw query does not
\* parse, the values do not decode, or a validator is configured and
\* validation fails, checked in that order; a failing bind tags the recording
\* span parse_query_param, decoder_schema or validation_error and calls Err
\* exactly once with 400; a bind that returns true has written nothing.
C14_QueryBindFailsInOrder ==
    BindQueryDone =>
        /\ thrown = ""
        /\ exit = BoolValue(QueryFailure = NoFailure)
        /\ ShapesOf(log) = FailureShapes(QueryFailure)
        /\ TaggedWith(log, QueryFailure)
        /\ exit = "true" => sink = NewSink /\ rec = NewRecorder

\* C14 witness: a query that parses but neither decodes nor validates was
\* answered once, as a decode failure
C14_Witness ==
    /\ BindQueryDone /\ call.parses /\ ~call.decodes /\ call.failures # <<>>
    /\ o.validator /\ exit = "false" /\ Len(SinkWrites) = 1

\* C20: when Close of the request body fails after a successful read, the
\* failure is recorded as an error on the recording span (RecordError or an
\* error status), the result of the bind is what it would be otherwise, and
\* no response is written for it.
C20_CloseFailureIsSpanError ==
    (BindBodyDone /\ call.read = "ok" /\ call.close = "err" /\ IsRecording(request.ctx)) =>
        /\ \E i \in 1..Len(SpanEvents) : SpanEvents[i].op \in {"RecordError", "SetStatus"}
        /\ exit = BoolValue(BodyFailure = NoFailure)
        /\ Len(SinkEvents) = IF BodyFailure = NoFailure THEN 0 ELSE 2

(* ------------------- the order of the span calls in Trace -------------- *)
\* the position in the log of the first event of target tgt and operation op
\* (0 when there is none)
IndexOf(tgt, op) ==
    IF \E i \in 1..Len(log) : log[i].tgt = tgt /\ log[i].op = op
    THEN CHOOSE i \in 1..Len(log) :
            /\ log[i].tgt = tgt /\ log[i].op = op
            /\ \A j \in 1..(i - 1) : ~(log[j].tgt = tgt /\ log[j].op = op)
    ELSE 0

IsRequestHeaderAttr(e) ==
    IsSpanEv(e) /\ e.key = "http.request.header." \o convertHeaderName("Connection")

ResponseKeys ==
    {"http.response.status_code", "http.response.size.format", "http.response.size.raw",
     "http.request.header." \o convertHeaderName("Content-Type"), "http.response.body"}

IsResponseAttr(e) == IsSpanEv(e) /\ (e.key \in ResponseKeys \/ e.op = "SetName")

\* the response attributes Trace sets whatever the options, and the rename
SetsResponseAttrs ==
    \A k \in {"http.response.status_code", "http.response.size.format",
              "http.response.size.raw"} :
        \E i \in 1..Len(log) : IsSpanEv(log[i]) /\ log[i].key = k

\* C15: when the wrapped handler returns, every request-header attribute was
\* set before next.ServeHTTP was called, the status, size, response-header
\* and response-body attributes and the rename come after it returned and
\* before End; on every path End is the last call made on the span.
C15_AttributeOrder ==
    pc = "done" =>
        /\ \A i \in 1..Len(log) : IsSpanEv(log[i]) => i <= IndexOf("span", "End")
        /\ thrown = "" =>
            /\ \E i \in 1..Len(log) : IsRequestHeaderAttr(log[i])
            /\ \A i \in 1..Len(log) :
                   IsRequestHeaderAttr(log[i]) => i < IndexOf("next", "ServeHTTP")
            /\ SetsResponseAttrs
            /\ IndexOf("span", "SetName") > 0
            /\ \A i \in 1..Len(log) :
                   IsResponseAttr(log[i]) =>
                       /\ IndexOf("next", "return") > 0
                       /\ IndexOf("next", "return") < i
                       /\ i < IndexOf("span", "End")

\* C15 witness: a handler that wrote an error response returned, and the
\* span got the response header and the body before it was ended
C15_Witness ==
    /\ pc = "done" /\ thrown = "" /\ sink.contentType # "" /\ rec.logRespBody
    /\ \E i \in 1..Len(log) : log[i].key = "http.response.body"
    /\ IndexOf("span", "End") = Len(log)

(* ---------------- Trace under every list of options -------------------- *)
Options ==
    UNION {{WithLogRequestBody(v), WithLogResponseBody(v), WithLogParams(v)} : v \in BOOLEAN}

\* every list of at most MaxOpts options
OptionLists == UNION {[1..n -> Options] : n \in 0..MaxOpts}

OptInit ==
    /\ o \in {NewOtel(<<>>), NewOtel(<<WithValidator>>)}
    /\ options \in OptionLists
    /\ request = [connection |-> "keep-alive",
                  ctx |-> [hasSpan |-> FALSE, recording |-> FALSE, logReqBody |-> "unset"]]
    /\ rec = NewRecorder
    /\ sink = NewSink
    /\ log = <<>>
    /\ ret = NoRet
    /\ call = NoCall
    /\ calls = 0
    /\ thrown = ""
    /\ pc = "idle"
    /\ exit = "none"

\* the wrapped handler binds the body of the request it was given, through
\* the recorder it was given; the body is read once
HandlerBindBody(in, res) ==
    /\ pc = "serving"
    /\ calls = 0
    /\ Commit(BindBodyRequest(World, o, request.ctx, "recorder", in, res).w)
    /\ call' = in
    /\ calls' = 1
    /\ UNCHANGED <<o, options, request, thrown, pc, exit>>

OptNext ==
    \/ \E recording \in BOOLEAN : TraceEnter(recording)
    \/ \E in \in BindBodyCalls : \E res \in SinkResults(<<"json">>) : HandlerBindBody(in, res)
    \/ HandlerReturn

OptSpec == OptInit /\ [][OptNext]_vars

\* the value of the last option of the list given for the flag; TRUE if none
RECURSIVE LastValue(_, _)
LastValue(opts, flag) ==
    IF opts = <<>> THEN TRUE
    ELSE IF opts[Len(opts)].flag = flag THEN opts[Len(opts)].val
    ELSE LastValue(SubSeq(opts, 1, Len(opts) - 1), flag)

HasAttr(key) == \E i \in 1..Len(log) : IsSpanEv(log[i]) /\ log[i].key = key

Requests == {1, 2}

\* mutant: one recorder allocated when the handler is built, shared by all calls
RecorderOf_Shared(r) == 1

\* recorder := &ResponseWriter{...} in the returned closure: every call of
\* the handler allocates its own recorder
RecorderOf(r) == r

WorldOf(r) ==
    [rec |-> rec[request[r].recorder], sink |-> sink[r], log |-> log[r],
     ret |-> ret[r], panic |-> ""]

CommitFor(r, a, w) ==
    /\ rec' = [rec EXCEPT ![a] = w.rec]
    /\ sink' = [sink EXCEPT ![r] = w.sink]
    /\ log' = [log EXCEPT ![r] = w.log]
    /\ ret' = [ret EXCEPT ![r] = w.ret]

ConcInit ==
    /\ o = NewOtel(<<>>)
    /\ options \in TraceOptionLists
    /\ request = [r \in Requests |->
                    [connection |-> "keep-alive",
                     ctx |-> [hasSpan |-> FALSE, recording |-> FALSE, logReqBody |-> "unset"],
                     recorder |-> 0]]
    /\ rec = [a \in Requests |-> NewRecorder]
    /\ sink = [r \in Requests |-> NewSink]
    /\ log = [r \in Requests |-> <<>>]
    /\ ret = [r \in Requests |-> NoRet]
    /\ call = [r \in Requests |-> <<>>]
    /\ calls = [r \in Requests |-> 0]
    /\ thrown = ""
    /\ pc = [r \in Requests |-> "idle"]
    /\ exit = [r \in Requests |-> "none"]

\* the handler is called for request r, up to next.ServeHTTP
ConcEnter(r) ==
    /\ pc[r] = "idle"
    /\ LET a == RecorderOf(r)
           w == [rec |-> rec[a], sink |-> sink[r], log |-> log[r], ret |-> ret[r],
                 panic |-> ""]
       IN  /\ CommitFor(r, a, TraceBefore(w, options, request[r]))
           /\ request' = [request EXCEPT ![r].ctx = TraceContext(options, TRUE),
                                         ![r].recorder = a]
    /\ pc' = [pc EXCEPT ![r] = "serving"]
    /\ UNCHANGED <<o, options, call, calls, thrown, exit>>

ConcWriteHeader(r, code) ==
    /\ pc[r] = "serving"
    /\ calls[r] < MaxEach
    /\ CommitFor(r, request[r].recorder, RW_WriteHeader(WorldOf(r), code))
    /\ call' = [call EXCEPT ![r] = Append(@, [op |-> "WriteHeader", code |-> code])]
    /\ calls' = [calls EXCEPT ![r] = @ + 1]
    /\ UNCHANGED <<o, options, request, thrown, pc, exit>>

ConcWrite(r, body, res) ==
    /\ pc[r] = "serving"
    /\ calls[r] < MaxEach
    /\ CommitFor(r, request[r].recorder, RW_Write(WorldOf(r), body, res))
    /\ call' = [call EXCEPT ![r] = Append(@, [op |-> "Write", body |-> body, res |-> res])]
    /\ calls' = [calls EXCEPT ![r] = @ + 1]
    /\ UNCHANGED <<o, options, request, thrown, pc, exit>>

\* next.ServeHTTP returns for request r
ConcReturn(r) ==
    /\ pc[r] = "serving"
    /\ CommitFor(r, request[r].recorder, TraceAfter(NextCall(WorldOf(r), "return")))
    /\ pc' = [pc EXCEPT ![r] = "done"]
    /\ exit' = [exit EXCEPT ![r] = "return"]
    /\ UNCHANGED <<o, options, request, call, calls, thrown>>

ConcNext ==
    \E r \in Requests :
        \/ ConcEnter(r)
        \/ \E code \in HandlerCodes : ConcWriteHeader(r, code)
        \/ \E body \in Bodies : \E res \in SinkResults(body) : ConcWrite(r, body, res)
        \/ ConcReturn(r)

ConcSpec == ConcInit /\ [][ConcNext]_vars

\* the recorder of request r: the one it allocated, a fresh one before that
RecorderIn(recs, req) ==
    IF req.recorder = 0 THEN NewRecorder ELSE recs[req.recorder]

\* a step that is no step of request r: r neither entered nor left the
\* handler, and its wrapped handler made no call
NoStepOf(r) == pc'[r] = pc[r] /\ call'[r] = call[r]

\* C16: with two requests in the handler at once, under every interleaving
\* each request keeps the recorder it allocated, and the recorder of a
\* request (status, size, buffer, flags) and what its writer received change
\* only in steps of that request; no step changes the Opentelemetry
\* configuration or the options.
C16_RequestsAreIsolated ==
    [][/\ \A r \in Requests :
              NoStepOf(r) =>
                  /\ RecorderIn(rec', request'[r]) = RecorderIn(rec, request[r])
                  /\ sink'[r] = sink[r]
                  /\ log'[r] = log[r]
       /\ o' = o
       /\ options' = options]_vars

\* C16 witness: both handlers are running, on recorders of their own that
\* hold different statuses
C16_Witness ==
    /\ pc[1] = "serving" /\ pc[2] = "serving"
    /\ request[1].recorder # request[2].recorder
    /\ rec[request[1].recorder].status = 404
    /\ rec[request[2].recorder].status = 200

(* -------------------------- formatSize alone --------------------------- *)
\* sizes around zero and around each unit threshold, and some in between
Sizes ==
    {t + d : t \in {0, KB, MB, GB}, d \in (0 - MaxDelta)..MaxDelta} \cup
    {500, KB + 512, 2 * KB, 5 * MB, GB + 512 * MB, GB + (GB - 1)}

FmtInit ==
    /\ ApiInit({[op |-> "formatSize", size |-> a, other |-> b] : a, b \in Sizes})
    /\ o = NewOtel(<<>>)
    /\ request.ctx = [hasSpan |-> FALSE, recording |-> FALSE, logReqBody |-> "unset"]
    /\ request.form = NilForm

\* two sizes are formatted; the strings are kept in exit
FormatSizes ==
    /\ pc = "idle"
    /\ call.op = "formatSize"
    /\ exit' = [size |-> formatSize(call.size), other |-> formatSize(call.other)]
    /\ calls' = 1
    /\ pc' = "done"
    /\ UNCHANGED <<o, options, request, rec, sink, log, ret, call, thrown>>

FmtNext == FormatSizes

FmtSpec == FmtInit /\ [][FmtNext]_vars

\* the unit of a formatted size: its last piece
UnitOf(text) == text[Len(text)]

UnitRank(unit) ==
    CASE unit = " B" -> 0
      [] unit = " KB" -> 1
      [] unit = " MB" -> 2
      [] unit = " GB" -> 3

\* the unit the thresholds on the integer size select
ThresholdUnit(size) ==
    CASE size < KB -> " B"
      [] KB <= size /\ size < KB * KB -> " KB"
      [] KB * KB <= size /\ size < KB * KB * KB -> " MB"
      [] size >= KB * KB * KB -> " GB"

\* C21: formatSize selects the unit by thresholds on the integer size: B
\* with the exact integer below 1024 (0 and negative sizes included), KB from
\* 1024, MB from 1024^2, GB from 1024^3; the unit never decreases when the
\* size grows; 500 gives "500 B", 2048 "2.00 KB", 5*1024*1024 "5.00 MB".
C21_UnitByThreshold ==
    (pc = "done" /\ call.op = "formatSize") =>
        /\ UnitOf(exit.size) = ThresholdUnit(call.size)
        /\ call.size < KB => exit.size = <<ToString(call.size), " B">>
        /\ call.size <= call.other =>
               UnitRank(UnitOf(exit.size)) <= UnitRank(UnitOf(exit.other))
        /\ call.size = 500 => exit.size = <<"500", " B">>
        /\ call.size = 2 * KB => exit.size = <<"2", ".", "0", "0", " KB">>
        /\ call.size = 5 * MB => exit.size = <<"5", ".", "0", "0", " MB">>

\* C21 witness: exactly 1024 was formatted in KB and the byte below it in B
C21_Witness ==
    /\ pc = "done" /\ call.op = "formatSize"
    /\ call.size = KB - 1 /\ call.other = KB
    /\ exit.size = <<"1023", " B">>
    /\ exit.other = <<"1", ".", "0", "0", " KB">>

(* ---------------- the status on the span and on the wire --------------- *)
\* the status the client receives: the first one written to the underlying
\* writer, or 200 when the handler returned without writing (net/http sends
\* the header with 200 when it finishes the response)
Delivered == IF sink.wroteHeader THEN sink.status ELSE 200

\* the numbers given with the span calls of the key or operation
SpanNumbers(key, op) ==
    {log[i].num : i \in {j \in 1..Len(log) :
                            IsSpanEv(log[j]) /\ log[j].key = key /\ log[j].op = op}}

\* C22: when the wrapped handler returns, http.response.status_code and the
\* status in the final name of the span are the status the client received,
\* whatever WriteHeader and Write calls the handler made: 200 when it made
\* none, the first status when WriteHeader was called again.
C22_SpanStatusIsDelivered ==
    (pc = "done" /\ thrown = "") =>
        /\ SpanNumbers("http.response.status_code", "SetAttributes") = {Delivered}
        /\ SpanNumbers("", "SetName") = {Delivered}

(* ============================ TraceHttpOtel ============================ *)
\* A request body is a stream [data, pos, closed, fault]: the bytes, how many
\* of them were read, whether Close was called, and what goes wrong with it:
\* "none", "read" (Read fails at the end of the data) or "close".
JSONBytes == {"{", "}", "7"}

\* every body of at most MaxLen bytes
SentBodies == UNION {[1..n -> JSONBytes] : n \in 0..MaxLen}

NewStream(data, fault) == [data |-> data, pos |-> 0, closed |-> FALSE, fault |-> fault]

\* json.Unmarshal(body, &requestBody) with requestBody a map[string]any: of
\* these bodies only the empty object decodes; digits are JSON but no object
IsJSONObject(body) == body = <<"{", "}">>

\* json.Marshal of the decoded map
MarshalObject(body) == <<"{", "}">>

\* io.ReadAll(stream): the unread bytes, the error, and the stream after it
ReadAll(stream) ==
    IF stream.closed
    THEN [body |-> <<>>, err |-> TRUE, stream |-> stream]
    ELSE [body |-> SubSeq(stream.data, stream.pos + 1, Len(stream.data)),
          err |-> stream.fault = "read",
          stream |-> [stream EXCEPT !.pos = Len(stream.data)]]

Log(w, tgt, op, key, txt) == [w EXCEPT !.log = Append(@, Ev(tgt, op, key, 0, txt))]

\* queryParamToSpan(r, attributes) of TraceHttpOtel: a span of its own
queryParamSpan(w) ==
    LET w1 == Log(w, "span.query", "Start", "", <<>>)
        w2 == Log(w1, "span.query", "SetAttributes", "http.request.query.raw", <<>>)
        w3 == Log(w2, "span.query", "SetAttributes", "http.request.query.params", <<>>)
    IN  Log(w3, "span.query", "End", "", <<>>)

\* the two deferred functions of addRequestBodyToSpan: the body that was
\* read is closed, then the span is ended
bodySpanLeave(w, stream) ==
    LET w1 == IF stream.fault = "close"
              THEN Log(w, "span.body", "RecordError", "", <<>>)
              ELSE w
    IN  Log(w1, "span.body", "End", "", <<>>)

\* addRequestBodyToSpan(r): the world and r.Body after it
addRequestBodyToSpan(w, stream) ==
    LET w0 == Log(w, "span.body", "Start", "", <<>>)
        read == ReadAll(stream)
        closed == [read.stream EXCEPT !.closed = TRUE]
    IN  IF read.err
        THEN [w |-> Log(w0, "span.body", "End", "", <<>>), body |-> read.stream]
        ELSE IF ~IsJSONObject(read.body)
        THEN [w |-> bodySpanLeave(Log(w0, "span.body", "RecordError", "", <<"unmarshal">>),
                                  closed),
              body |-> closed]
        ELSE [w |-> bodySpanLeave(Log(w0, "span.body", "SetAttributes",
                                      "http.request.body.json", MarshalObject(read.body)),
                                  closed),
              body |-> NewStream(read.body, "none")]

Methods == {"GET", "POST", "PUT"}

\* TraceHttpOtel up to next.ServeHTTP
HttpBefore(w, opts, req) ==
    LET recorder == ApplyOptions(NewRecorder, opts)
        w0 == [w EXCEPT !.rec = recorder]
        w1 == IF recorder.logParams THEN queryParamSpan(w0) ELSE w0
    IN  IF recorder.logReqBody /\ req.method \in {"POST", "PUT"}
        THEN addRequestBodyToSpan(w1, req.body)
        ELSE [w |-> w1, body |-> req.body]

\* TraceHttpOtel after next.ServeHTTP returned: the span "response body"
HttpAfter(w) ==
    LET w1 == [w EXCEPT !.log = Append(@, Ev("span.response", "Start",
                                             "http.response.status_code", w.rec.status,
                                             formatSize(w.rec.size)))]
        w2 == IF w.rec.status = 200 /\ w.rec.logRespBody
              THEN Log(w1, "span.response", "SetAttributes", "http.response.body",
                       BufferString(w.rec.buffer))
              ELSE w1
    IN  Log(w2, "span.response", "End", "", <<>>)

HttpInit ==
    /\ o = NewOtel(<<>>)
    /\ options \in {<<>>, <<WithLogRequestBody(FALSE)>>}
    /\ request \in {[method |-> m, sent |-> b, body |-> NewStream(b, f), read |-> FALSE] :
                        m \in Methods, b \in SentBodies, f \in {"none", "read", "close"}}
    /\ rec = NewRecorder
    /\ sink = NewSink
    /\ log = <<>>
    /\ ret = NoRet
    /\ call = NoCall
    /\ calls = 0
    /\ thrown = ""
    /\ pc = "idle"
    /\ exit = "none"

\* the handler returned by TraceHttpOtel is called, up to next.ServeHTTP
HttpEnter ==
    /\ pc = "idle"
    /\ LET b == HttpBefore(World, options, request)
       IN  /\ Commit(b.w)
           /\ request' = [request EXCEPT !.body = b.body]
    /\ pc' = "serving"
    /\ UNCHANGED <<o, options, call, calls, thrown, exit>>

\* the wrapped handler reads the body of the request it was given
HttpHandlerRead ==
    /\ pc = "serving"
    /\ ~request.read
    /\ LET read == ReadAll(request.body)
       IN  /\ call' = [op |-> "ReadAll", code |-> 0, body |-> read.body]
           /\ request' = [request EXCEPT !.body = read.stream, !.read = TRUE]
    /\ UNCHANGED <<o, options, rec, sink, log, ret, calls, thrown, pc, exit>>

HttpHandlerWriteHeader(code) ==
    /\ pc = "serving"
    /\ calls < MaxEach
    /\ Commit(RW_WriteHeader(World, code))
    /\ calls' = calls + 1
    /\ UNCHANGED <<o, options, request, call, thrown, pc, exit>>

HttpHandlerWrite(body, res) ==
    /\ pc = "serving"
    /\ calls < MaxEach
    /\ Commit(RW_Write(World, body, res))
    /\ calls' = calls + 1
    /\ UNCHANGED <<o, options, request, call, thrown, pc, exit>>

\* next.ServeHTTP returns
HttpReturn ==
    /\ pc = "serving"
    /\ Commit(HttpAfter(World))
    /\ pc' = "done"
    /\ exit' = "return"
    /\ UNCHANGED <<o, options, request, call, calls, thrown>>

HttpNext ==
    \/ HttpEnter
    \/ HttpHandlerRead
    \/ \E code \in HandlerCodes : HttpHandlerWriteHeader(code)
    \/ \E body \in Bodies : \E res \in SinkResults(body) : HttpHandlerWrite(body, res)
    \/ HttpReturn

HttpSpec == HttpInit /\ [][HttpNext]_vars

\* C23: for a POST or PUT request whose body can be read, the bytes the
\* wrapped handler reads from request.Body are the bytes the client sent,
\* with request-body logging enabled as with it disabled, whatever the body
\* holds: a JSON object, other JSON, or bytes that are no JSON.
C23_BodyLoggingIsTransparent ==
    (call.op = "ReadAll" /\ request.method \in {"POST", "PUT"} /\ request.body.fault = "none")
        => call.body = request.sent
====
